---- MODULE Spec2Model ----
(***************************************************************************)
(* Classic Monte Carlo tree search (src/mcts_classic.py): the search graph *)
(* of Node and Edge objects, the store (_tree) keyed by state key, the     *)
(* designated root, and one query (get_distribution) as a sequence of      *)
(* steps: set the root (create or prune), SIMULATIONS simulations          *)
(* (move to leaf, rollout or terminal value, expansion, backpropagation),  *)
(* then normalisation of the root's visit counts.                          *)
(***************************************************************************)
EXTENDS Integers, Sequences, FiniteSets, TLC

(* ---------------------------- bounds ----------------------------------- *)

\* Largest simulation budget (config CLASSIC_MCTS_SIMULATIONS) a session uses.
\* Seven simulations from the start position are the fewest after which a
\* node has two parents, so that a later query prunes over a shared node.
MaxSimulations == 7

\* Largest number of get_distribution calls in one session.
MaxQueries == 2

(* ------------------------ configuration -------------------------------- *)

\* Board side (config N); the board has N * N positions.
N == 2

\* Exploration constant (config CLASSIC_C_PUCT).
C_PUCT == 1

BOARD_SIZE == N * N

ACTION_SIZE == BOARD_SIZE

(* ----------------- game-state collaborator (IGameState) ---------------- *)
(* A placement game on the N x N board: players 1 and -1 move in turn,     *)
(* each putting a mark on an empty position; a player who owns a complete  *)
(* row has won; a full board without a complete row is a draw.  A state is *)
(* the board, a sequence of BOARD_SIZE marks (0 = empty).  The game        *)
(* plugged in is either "sound" or "broken": the broken one breaks the     *)
(* collaborator contract by reporting no legal action in BrokenState, a    *)
(* position that is not finished.                                          *)

VARIABLE game

EmptyBoard == [c \in 1..BOARD_SIZE |-> 0]

Marked(s, p) == {c \in 1..BOARD_SIZE : s[c] = p}

get_player(s) ==
    IF Cardinality(Marked(s, 1)) = Cardinality(Marked(s, -1)) THEN 1 ELSE -1

HasRow(s, p) == \E r \in 0..(N - 1) : \A c \in 1..N : s[r * N + c] = p

is_game_finished(s) == HasRow(s, 1) \/ HasRow(s, -1) \/ Marked(s, 0) = {}

\* The position, two moves into a game, where the broken game goes wrong.
BrokenState == [EmptyBoard EXCEPT ![1] = 1, ![3] = -1]

\* Legal actions in ascending order of action id (action a marks position a + 1).
get_valid_actions(s) ==
    IF game = "broken" /\ s = BrokenState THEN <<>>
    ELSE SelectSeq([a \in 1..ACTION_SIZE |-> a - 1], LAMBDA a : s[a + 1] = 0)

get_next_state(s, action) == [s EXCEPT ![action + 1] = get_player(s)]

get_hashable(s) == s

\* Value of a finished state for the player to move in it.
get_value(s) ==
    IF HasRow(s, -get_player(s)) THEN -1
    ELSE IF HasRow(s, get_player(s)) THEN 1
    ELSE 0

RECURSIVE StateAfter(_, _)
StateAfter(s, actions) ==
    IF actions = <<>> THEN s
    ELSE StateAfter(get_next_state(s, Head(actions)), Tail(actions))

\* The states a caller queries: the start position, positions one, two and
\* three moves into a game (the last with a single legal action), a drawn
\* position, a position with a winning move and the won position.
QueryStates ==
    { StateAfter(EmptyBoard, p) :
        p \in { <<>>, <<0>>, <<0, 1>>, <<0, 1, 2>>, <<0, 1, 2, 3>>,
                <<0, 2>>, <<0, 2, 1>> } }

(* --------------------------- arithmetic -------------------------------- *)

Abs(x) == IF x < 0 THEN -x ELSE x

RECURSIVE GCD(_, _)
GCD(a, b) == IF b = 0 THEN a ELSE GCD(b, a % b)

\* The quotient n / d as a fraction in lowest terms; a zero denominator gives
\* the not-a-number value (the only numerators divided by zero here are 0).
NaN == [num |-> 0, den |-> 0]

Divide(n, d) ==
    IF d = 0 THEN NaN
    ELSE LET g == GCD(Abs(n), Abs(d))
         IN  [num |-> (IF d < 0 THEN -n ELSE n) \div g, den |-> Abs(d) \div g]

Zero == Divide(0, 1)

One == Divide(1, 1)

\* floor(10^7 * sqrt(ln(total) / n)) for 1 <= n <= total <= 24.
SqrtLogRatio ==
<<
    <<0>>,
    <<8325546, 5887050>>,
    <<10481470, 7411519, 6051479>>,
    <<11774100, 8325546, 6797779, 5887050>>,
    <<12686362, 8970612, 7324474, 6343181, 5673513>>,
    <<13385661, 9465092, 7728215, 6692830, 5986250, 5464673>>,
    <<13949588, 9863848, 8053798, 6974794, 6238445, 5694895, 5272448>>,
    <<14420268, 10196669, 8325546, 7210134, 6448940, 5887050, 5450349, 5098334>>,
    <<14823038, 10481470, 8558085, 7411519, 6629064, 6051479, 5602581, 5240735, 4941012>>,
    <<15174271, 10729830, 8760869, 7587135, 6786140, 6194870, 5735335, 5364915, 5058090, 4798525>>,
    <<15485138, 10949646, 8940349, 7742569, 6925164, 6321781, 5852832, 5474823, 5161712, 4896830, 4668945>>,
    <<15763586, 11146539, 9101111, 7881793, 7049690, 6435457, 5958075, 5573269, 5254528, 4984883, 4752900, 4550555>>,
    <<16015459, 11324639, 9246529, 8007729, 7162331, 6538283, 6053274, 5662319, 5338486, 5064532, 4828842, 4623264, 4441889>>,
    <<16245175, 11487073, 9379156, 8122587, 7265063, 6632065, 6140099, 5743536, 5415058, 5137175, 4898104, 4689578, 4505601, 4341705>>,
    <<16456154, 11636258, 9500965, 8228077, 7359416, 6718196, 6219841, 5818129, 5485384, 5203892, 4961717, 4750482, 4564116, 4398092, 4248960>>,
    <<16651092, 11774100, 9613512, 8325546, 7446594, 6797779, 6293521, 5887050, 5550364, 5265537, 5020493, 4806756, 4618182, 4450191, 4299293, 4162773>>,
    <<16832151, 11902128, 9718047, 8416075, 7527567, 6871697, 6361955, 5951064, 5610717, 5322793, 5075084, 4859023, 4668398, 4498581, 4346042, 4208037, 4082396>>,
    <<17001093, 12021588, 9815585, 8500546, 7603120, 6940667, 6425809, 6010794, 5667031, 5376217, 5126022, 4907792, 4715254, 4543733, 4389663, 4250273, 4123370, 4007196>>,
    <<17159367, 12133505, 9906965, 8579683, 7673902, 7005282, 6485631, 6066752, 5719789, 5426268, 5173744, 4953482, 4759152, 4586033, 4430529, 4289841, 4161757, 4044501, 3936628>>,
    <<17308183, 12238734, 9992884, 8654091, 7740455, 7066036, 6541878, 6119367, 5769394, 5473328, 5218613, 4996442, 4800426, 4625806, 4468953, 4327045, 4197851, 4079578, 3970769, 3870227>>,
    <<17448559, 12337995, 10073930, 8724279, 7803233, 7123344, 6594935, 6168997, 5816186, 5517719, 5260938, 5036965, 4839359, 4663323, 4505198, 4362139, 4231897, 4112665, 4002974, 3901616, 3807587>>,
    <<17581360, 12431899, 10150603, 8790680, 7862623, 7177560, 6645129, 6215949, 5860453, 5559714, 5300979, 5075301, 4876192, 4698816, 4539487, 4395340, 4264106, 4143966, 4033440, 3931311, 3836567, 3748358>>,
    <<17707326, 12520970, 10223329, 8853663, 7918957, 7228985, 6692740, 6260485, 5902442, 5599548, 5338959, 5111664, 4911128, 4732482, 4572012, 4426831, 4294657, 4173656, 4062339, 3959478, 3864055, 3775214, 3692232>>,
    <<17827096, 12605661, 10292479, 8913548, 7972520, 7277881, 6738009, 6302830, 5942365, 5637423, 5375071, 5146239, 4944347, 4764492, 4602936, 4456774, 4323706, 4201887, 4089816, 3986260, 3890191, 3800749, 3717206, 3638940>>
>>

\* Fixed-point unit of the confidence bound: 10^-7.
Scale == 10000000

(* ------------------------------ state ---------------------------------- *)

VARIABLES
    simulations,   \* config SIMULATIONS, fixed for the session
    tree,          \* self._tree: state key -> Node (object id)
    root,          \* self._root: object id, None before the first query
    nodes,         \* the live Node objects: id -> [state, edges]
    next_id,       \* identity of the next object constructed
    pc,            \* position inside get_distribution / _simulate
    state,         \* argument of the current (or last) get_distribution
    i,             \* simulations completed in the current query
    leaf,          \* _simulate: leaf
    breadcrumbs,   \* _simulate: breadcrumbs, edges as <<node id, index>>
    value,         \* _simulate: value
    rstate,        \* _rollout: state
    player,        \* _rollout: player
    result,        \* the vector the last get_distribution returned
    queries,       \* get_distribution calls made so far
    created,       \* history: state key -> number of Node objects constructed
    prev_state,    \* history: argument of the previous get_distribution
    start_visits,  \* history: sum of N over the root's edges when the query began
    start_leaf,    \* history: the root had no edges when the query began
    fresh,         \* history: the query built its tree with _create_tree
    steps,         \* history: the steps of the current (or last) simulation
    failed         \* the last get_distribution raised instead of returning

vars == <<simulations, tree, root, nodes, next_id, pc, state, i, leaf,
          breadcrumbs, value, rstate, player, result, queries, created,
          prev_state, start_visits, start_leaf, fresh, steps, failed, game>>

None == 0

NoState == <<>>

NoResult == <<>>

EmptyTree == <<>>

(* --------------------------- Node and Edge ----------------------------- *)

Node(s) == [state |-> s, edges |-> <<>>]

\* Mutant of Edge: the edge records the player to move in the state it
\* leads to.
Edge_player_of_child(in_node, in_state, out_node, action) ==
    [in_node |-> in_node, out_node |-> out_node, action |-> action,
     player |-> get_player(get_next_state(in_state, action)),
     stats |-> [N |-> 0, W |-> 0, Q |-> Zero]]

Edge(in_node, in_state, out_node, action) ==
    [in_node |-> in_node, out_node |-> out_node, action |-> action,
     player |-> get_player(in_state),
     stats |-> [N |-> 0, W |-> 0, Q |-> Zero]]

\* Object id -> Node extended by a newly constructed object.
Allocate(nds, id, nd) ==
    [n \in (DOMAIN nds) \cup {id} |-> IF n = id THEN nd ELSE nds[n]]

add_node(t, key, node) ==
    [k \in (DOMAIN t) \cup {key} |-> IF k = key THEN node ELSE t[k]]

Count(c, key) ==
    [k \in (DOMAIN c) \cup {key} |->
        IF k = key THEN (IF key \in DOMAIN c THEN c[key] + 1 ELSE 1) ELSE c[k]]

RECURSIVE SumN(_)
SumN(edges) ==
    IF edges = <<>> THEN 0 ELSE Head(edges).stats.N + SumN(Tail(edges))

OutNodes(nds, n) == { nds[n].edges[k].out_node : k \in 1..Len(nds[n].edges) }

\* Objects still referenced from a set of objects through out_node; every
\* other Node is unreferenced once the store drops it and is reclaimed.
RECURSIVE Referenced(_, _)
Referenced(nds, ids) ==
    LET more == ids \cup UNION { OutNodes(nds, n) : n \in ids }
    IN  IF more = ids THEN ids ELSE Referenced(nds, more)

Reclaim(nds, t) ==
    LET live == Referenced(nds, { t[k] : k \in DOMAIN t })
    IN  [n \in live |-> nds[n]]

(* ----------------------------- selection ------------------------------- *)

\* Q + C_PUCT * (log(total_visits) / N) ** 0.5 in units of 10^-7.
UpperConfidenceBound(edge, total_visits) ==
    (edge.stats.Q.num * Scale) \div edge.stats.Q.den
        + C_PUCT * SqrtLogRatio[total_visits][edge.stats.N]

\* Mutant of best_edge_loop: an unvisited edge is skipped (continue) instead
\* of returned, and is chosen only when no edge has been visited.
RECURSIVE best_edge_loop_skip_unvisited(_, _, _, _, _)
best_edge_loop_skip_unvisited(edges, total_visits, k, max_u, best) ==
    IF k > Len(edges) THEN (IF best = None THEN 1 ELSE best)
    ELSE IF edges[k].stats.N = 0
         THEN best_edge_loop_skip_unvisited(edges, total_visits, k + 1, max_u, best)
    ELSE LET u == UpperConfidenceBound(edges[k], total_visits)
         IN  IF best = None \/ u > max_u
             THEN best_edge_loop_skip_unvisited(edges, total_visits, k + 1, u, k)
             ELSE best_edge_loop_skip_unvisited(edges, total_visits, k + 1, max_u, best)

\* The loop of _get_best_edge from edge k on; best = None stands for
\* max_u = -inf with no best edge yet.  The result is an index into edges.
RECURSIVE best_edge_loop(_, _, _, _, _)
best_edge_loop(edges, total_visits, k, max_u, best) ==
    IF k > Len(edges) THEN best
    ELSE IF edges[k].stats.N = 0 THEN k
    ELSE LET u == UpperConfidenceBound(edges[k], total_visits)
         IN  IF best = None \/ u > max_u
             THEN best_edge_loop(edges, total_visits, k + 1, u, k)
             ELSE best_edge_loop(edges, total_visits, k + 1, max_u, best)

get_best_edge(edges) == best_edge_loop(edges, SumN(edges), 1, 0, None)

\* Mutant of descend: a node none of whose edges has been visited is taken
\* for a leaf.
RECURSIVE descend_to_unvisited(_, _)
descend_to_unvisited(node, crumbs) ==
    IF nodes[node].edges = <<>> \/ SumN(nodes[node].edges) = 0
    THEN [leaf |-> node, breadcrumbs |-> crumbs]
    ELSE LET k == get_best_edge(nodes[node].edges)
         IN  descend_to_unvisited(nodes[node].edges[k].out_node,
                                  Append(crumbs, <<node, k>>))

RECURSIVE descend(_, _)
descend(node, crumbs) ==
    IF nodes[node].edges = <<>> THEN [leaf |-> node, breadcrumbs |-> crumbs]
    ELSE LET k == get_best_edge(nodes[node].edges)
         IN  descend(nodes[node].edges[k].out_node, Append(crumbs, <<node, k>>))

\* Mutant of move_to_leaf: the edge taken at the root is not recorded.
move_to_leaf_unrecorded_root ==
    LET r == descend(root, <<>>)
    IN  [leaf |-> r.leaf,
         breadcrumbs |-> IF r.breadcrumbs = <<>> THEN <<>> ELSE Tail(r.breadcrumbs)]

move_to_leaf == descend(root, <<>>)

(* ----------------------------- expansion ------------------------------- *)

\* Mutant of expand_action: the child is constructed and registered without
\* looking its key up in the store.
expand_action_always_new(g, lf, action) ==
    LET new_state == get_next_state(g.nodes[lf].state, action)
        key == get_hashable(new_state)
        new_node == g.next_id
        nodes1 == Allocate(g.nodes, new_node, Node(new_state))
        new_edge == Edge(lf, g.nodes[lf].state, new_node, action)
    IN  [tree |-> add_node(g.tree, key, new_node),
         nodes |-> [nodes1 EXCEPT ![lf].edges = Append(@, new_edge)],
         next_id |-> g.next_id + 1,
         created |-> Count(g.created, key)]

\* One iteration of the loop of _expand_node, on the graph g = [tree, nodes,
\* next_id, created]: the child is looked up in the store or constructed and
\* registered, then the edge is appended to the leaf's edges.
expand_action(g, lf, action) ==
    LET new_state == get_next_state(g.nodes[lf].state, action)
        key == get_hashable(new_state)
        absent == key \notin DOMAIN g.tree
        new_node == IF absent THEN g.next_id ELSE g.tree[key]
        nodes1 == IF absent THEN Allocate(g.nodes, new_node, Node(new_state))
                  ELSE g.nodes
        new_edge == Edge(lf, g.nodes[lf].state, new_node, action)
    IN  [tree |-> IF absent THEN add_node(g.tree, key, new_node) ELSE g.tree,
         nodes |-> [nodes1 EXCEPT ![lf].edges = Append(@, new_edge)],
         next_id |-> IF absent THEN g.next_id + 1 ELSE g.next_id,
         created |-> IF absent THEN Count(g.created, key) ELSE g.created]

RECURSIVE expand_loop(_, _, _)
expand_loop(g, lf, actions) ==
    IF actions = <<>> THEN g
    ELSE expand_loop(expand_action(g, lf, Head(actions)), lf, Tail(actions))

(* -------------------------- backpropagation ---------------------------- *)

\* Mutant of update_stats: the mean is computed before W is updated.
update_stats_stale_mean(stats, v, sign) ==
    LET n == stats.N + 1
        w == stats.W + v * sign
    IN  [N |-> n, W |-> w, Q |-> Divide(stats.W, n)]

\* Mutant of update_stats: a visit is counted twice.
update_stats_counted_twice(stats, v, sign) ==
    LET n == stats.N + 2
        w == stats.W + v * sign
    IN  [N |-> n, W |-> w, Q |-> Divide(w, n)]

update_stats(stats, v, sign) ==
    LET n == stats.N + 1
        w == stats.W + v * sign
    IN  [N |-> n, W |-> w, Q |-> Divide(w, n)]

\* Mutant of propagate: the value is added with the same sign on every edge.
RECURSIVE propagate_unsigned(_, _, _, _)
propagate_unsigned(nds, leaf_player, v, crumbs) ==
    IF crumbs = <<>> THEN nds
    ELSE LET n == Head(crumbs)[1]
             k == Head(crumbs)[2]
         IN  propagate_unsigned(
                 [nds EXCEPT ![n].edges[k].stats = update_stats(@, v, 1)],
                 leaf_player, v, Tail(crumbs))

\* Mutant of propagate: only the edge that enters the leaf is updated.
propagate_last_only(nds, leaf_player, v, crumbs) ==
    IF crumbs = <<>> THEN nds
    ELSE LET n == crumbs[Len(crumbs)][1]
             k == crumbs[Len(crumbs)][2]
             sign == IF nds[n].edges[k].player = leaf_player THEN 1 ELSE -1
         IN  [nds EXCEPT ![n].edges[k].stats = update_stats(@, v, sign)]

RECURSIVE propagate(_, _, _, _)
propagate(nds, leaf_player, v, crumbs) ==
    IF crumbs = <<>> THEN nds
    ELSE LET n == Head(crumbs)[1]
             k == Head(crumbs)[2]
             sign == IF nds[n].edges[k].player = leaf_player THEN 1 ELSE -1
         IN  propagate([nds EXCEPT ![n].edges[k].stats = update_stats(@, v, sign)],
                       leaf_player, v, Tail(crumbs))

(* --------------------------- tree lifecycle ---------------------------- *)

\* _prune_tree: the store rebuilt by the recursion of copy_subtree.
RECURSIVE copy_subtree(_, _)
RECURSIVE copy_edges(_, _, _)
copy_subtree(subtree, node_) == copy_edges(subtree, node_, 1)

copy_edges(subtree, node_, k) ==
    IF k > Len(nodes[node_].edges) THEN subtree
    ELSE LET out == nodes[node_].edges[k].out_node
             added == add_node(subtree, get_hashable(nodes[out].state), out)
         IN  copy_edges(copy_subtree(added, out), node_, k + 1)

\* Mutant of prune_tree: copy_subtree does not recurse, only the root and
\* its children are kept.
prune_tree_children_only(node) ==
    LET kept == {node} \cup OutNodes(nodes, node)
    IN  [k \in { get_hashable(nodes[n].state) : n \in kept } |->
            CHOOSE n \in kept : get_hashable(nodes[n].state) = k]

\* Mutant of prune_tree: copy_subtree is not called, only the root is kept.
prune_tree_root_only(node) ==
    add_node(EmptyTree, get_hashable(nodes[node].state), node)

prune_tree(node) ==
    copy_subtree(add_node(EmptyTree, get_hashable(nodes[node].state), node), node)

(* ------------------------------ actions -------------------------------- *)

\* A new engine (MctsClassic.__init__) before its first query.
NewEngine ==
    /\ simulations \in 0..MaxSimulations
    /\ tree = EmptyTree
    /\ root = None
    /\ nodes = <<>>
    /\ next_id = 1
    /\ pc = "idle"
    /\ state = NoState
    /\ i = 0
    /\ leaf = None
    /\ breadcrumbs = <<>>
    /\ value = 0
    /\ rstate = NoState
    /\ player = 0
    /\ result = NoResult
    /\ queries = 0
    /\ created = <<>>
    /\ prev_state = NoState
    /\ start_visits = 0
    /\ start_leaf = FALSE
    /\ fresh = FALSE
    /\ steps = <<>>
    /\ failed = FALSE

Init == game = "sound" /\ NewEngine

InitBroken == game = "broken" /\ NewEngine

\* _create_tree: a new store holding one new Node, the root.
create_tree(s) ==
    /\ root' = next_id
    /\ tree' = add_node(EmptyTree, get_hashable(s), next_id)
    /\ nodes' = Allocate(<<>>, next_id, Node(s))
    /\ next_id' = next_id + 1
    /\ created' = Count(created, get_hashable(s))

\* Mutant of reuse_tree: a new tree is created for a state already stored.
reuse_tree_rebuilt(s) == create_tree(s)

\* Mutant of reuse_tree: the statistics of the retained edges start again
\* from zero.
reuse_tree_reset_stats(s) ==
    /\ root' = tree[get_hashable(s)]
    /\ tree' = prune_tree(tree[get_hashable(s)])
    /\ nodes' = [n \in DOMAIN Reclaim(nodes, tree') |->
                    [nodes[n] EXCEPT !.edges =
                        [k \in 1..Len(nodes[n].edges) |->
                            [nodes[n].edges[k] EXCEPT
                                !.stats = [N |-> 0, W |-> 0, Q |-> Zero]]]]]
    /\ UNCHANGED <<next_id, created>>

\* Lines 63-65: the stored node becomes the root and the store is pruned to it.
reuse_tree(s) ==
    /\ root' = tree[get_hashable(s)]
    /\ tree' = prune_tree(tree[get_hashable(s)])
    /\ nodes' = Reclaim(nodes, tree')
    /\ UNCHANGED <<next_id, created>>

\* get_distribution, lines 60-65: set the root node.
get_distribution(s) ==
    /\ pc = "idle"
    /\ queries < MaxQueries
    /\ IF get_hashable(s) \notin DOMAIN tree THEN create_tree(s) ELSE reuse_tree(s)
    /\ state' = s
    /\ prev_state' = state
    /\ queries' = queries + 1
    /\ i' = 0
    /\ result' = NoResult
    /\ start_visits' = IF get_hashable(s) \in DOMAIN tree
                       THEN SumN(nodes[tree[get_hashable(s)]].edges) ELSE 0
    /\ start_leaf' = (nodes'[root'].edges = <<>>)
    /\ fresh' = (get_hashable(s) \notin DOMAIN tree)
    /\ steps' = <<>>
    /\ failed' = FALSE
    /\ leaf' = None
    /\ pc' = "simulate"
    /\ UNCHANGED <<game, simulations, breadcrumbs, value, rstate, player>>

\* _simulate, line 79: move to a leaf.
simulate ==
    /\ pc = "simulate"
    /\ i < simulations
    /\ leaf' = move_to_leaf.leaf
    /\ breadcrumbs' = move_to_leaf.breadcrumbs
    /\ pc' = "leaf"
    /\ steps' = <<"select">>
    /\ UNCHANGED <<game, fresh, failed, simulations, tree, root, nodes,
                   next_id, state, i, value, rstate, player, result, queries,
                   created, prev_state, start_visits, start_leaf>>

\* _simulate, lines 80-81 and _rollout, line 100: the leaf is not finished.
rollout ==
    /\ pc = "leaf"
    /\ ~is_game_finished(nodes[leaf].state)
    /\ rstate' = nodes[leaf].state
    /\ player' = get_player(nodes[leaf].state)
    /\ pc' = "rollout"
    /\ steps' = Append(steps, "rollout")
    /\ UNCHANGED <<game, fresh, failed, simulations, tree, root, nodes,
                   next_id, state, i, leaf, breadcrumbs, value, result,
                   queries, created, prev_state, start_visits, start_leaf>>

\* Mutant of leaf_value: a finished leaf is expanded like any other leaf.
leaf_value_then_expand ==
    /\ pc = "leaf"
    /\ is_game_finished(nodes[leaf].state)
    /\ value' = get_value(nodes[leaf].state)
    /\ pc' = "expand"
    /\ steps' = Append(steps, "evaluate")
    /\ UNCHANGED <<game, fresh, failed, simulations, tree, root, nodes,
                   next_id, state, i, leaf, breadcrumbs, rstate, player,
                   result, queries, created, prev_state, start_visits,
                   start_leaf>>

\* _simulate, lines 83-84: the leaf is finished, its own value is used.
leaf_value ==
    /\ pc = "leaf"
    /\ is_game_finished(nodes[leaf].state)
    /\ value' = get_value(nodes[leaf].state)
    /\ pc' = "back_propagate"
    /\ steps' = Append(steps, "evaluate")
    /\ UNCHANGED <<game, fresh, failed, simulations, tree, root, nodes,
                   next_id, state, i, leaf, breadcrumbs, rstate, player,
                   result, queries, created, prev_state, start_visits,
                   start_leaf>>

\* _rollout, lines 102-105: one random move.
rollout_move ==
    /\ pc = "rollout"
    /\ ~is_game_finished(rstate)
    /\ \E k \in 1..Len(get_valid_actions(rstate)) :
           rstate' = get_next_state(rstate, get_valid_actions(rstate)[k])
    /\ UNCHANGED <<game, fresh, failed, simulations, tree, root, nodes,
                   next_id, pc, state, i, leaf, breadcrumbs, value, player,
                   result, queries, created, prev_state, start_visits,
                   start_leaf, steps>>

\* Mutant of rollout_return: the value is never negated.
rollout_return_unsigned ==
    /\ pc = "rollout"
    /\ is_game_finished(rstate)
    /\ value' = get_value(rstate)
    /\ rstate' = NoState
    /\ player' = 0
    /\ pc' = "expand"
    /\ UNCHANGED <<game, fresh, failed, simulations, tree, root, nodes,
                   next_id, state, i, leaf, breadcrumbs, result, queries,
                   created, prev_state, start_visits, start_leaf, steps>>

\* _rollout, line 106: the value of the finished state for the leaf's player.
rollout_return ==
    /\ pc = "rollout"
    /\ is_game_finished(rstate)
    /\ value' = IF get_player(rstate) = player THEN get_value(rstate)
                ELSE -get_value(rstate)
    /\ rstate' = NoState
    /\ player' = 0
    /\ pc' = "expand"
    /\ UNCHANGED <<game, fresh, failed, simulations, tree, root, nodes,
                   next_id, state, i, leaf, breadcrumbs, result, queries,
                   created, prev_state, start_visits, start_leaf, steps>>

\* Mutant of rollout_abort: the rollout gives up with value 0 and the
\* simulation goes on.
rollout_abort_recover ==
    /\ pc = "rollout"
    /\ ~is_game_finished(rstate)
    /\ get_valid_actions(rstate) = <<>>
    /\ value' = 0
    /\ rstate' = NoState
    /\ player' = 0
    /\ pc' = "expand"
    /\ UNCHANGED <<game, fresh, failed, simulations, tree, root, nodes,
                   next_id, state, i, leaf, breadcrumbs, result, queries,
                   created, prev_state, start_visits, start_leaf, steps>>

\* _rollout, line 104: random.choice of an empty list of legal actions
\* raises IndexError; nothing catches it, get_distribution ends with it.
rollout_abort ==
    /\ pc = "rollout"
    /\ ~is_game_finished(rstate)
    /\ get_valid_actions(rstate) = <<>>
    /\ failed' = TRUE
    /\ rstate' = NoState
    /\ player' = 0
    /\ breadcrumbs' = <<>>
    /\ pc' = "idle"
    /\ UNCHANGED <<game, fresh, simulations, tree, root, nodes, next_id, state,
                   i, leaf, value, result, queries, created, prev_state,
                   start_visits, start_leaf, steps>>

\* _simulate, line 82: _expand_node(leaf).
expand_node ==
    /\ pc = "expand"
    /\ LET g == expand_loop([tree |-> tree, nodes |-> nodes, next_id |-> next_id,
                             created |-> created],
                            leaf, get_valid_actions(nodes[leaf].state))
       IN  /\ tree' = g.tree
           /\ nodes' = g.nodes
           /\ next_id' = g.next_id
           /\ created' = g.created
    /\ pc' = "back_propagate"
    /\ steps' = Append(steps, "expand")
    /\ UNCHANGED <<game, fresh, failed, simulations, root, state, i, leaf,
                   breadcrumbs, value, rstate, player, result, queries,
                   prev_state, start_visits, start_leaf>>

\* _simulate, line 85: _back_propagate; the simulation is complete (line 67).
back_propagate ==
    /\ pc = "back_propagate"
    /\ nodes' = propagate(nodes, get_player(nodes[leaf].state), value, breadcrumbs)
    /\ i' = i + 1
    /\ leaf' = None
    /\ breadcrumbs' = <<>>
    /\ value' = 0
    /\ pc' = "simulate"
    /\ steps' = Append(steps, "backprop")
    /\ UNCHANGED <<game, fresh, failed, simulations, tree, root, next_id,
                   state, rstate, player, result, queries, created,
                   prev_state, start_visits, start_leaf>>

\* Lines 72-74: the visit counts of the root's edges, by action.
RECURSIVE visit_counts(_, _)
visit_counts(counts, edges) ==
    IF edges = <<>> THEN counts
    ELSE visit_counts([counts EXCEPT ![Head(edges).action] = Head(edges).stats.N],
                      Tail(edges))

RECURSIVE Sum(_, _)
Sum(f, S) ==
    IF S = {} THEN 0
    ELSE LET x == CHOOSE y \in S : TRUE IN f[x] + Sum(f, S \ {x})

\* Mutant of normalize: the counts are divided by the simulation budget.
normalize_by_budget(counts) ==
    [a \in DOMAIN counts |-> Divide(counts[a], simulations)]

\* Line 75: visit_counts / sum(visit_counts).
normalize(counts) ==
    [a \in DOMAIN counts |-> Divide(counts[a], Sum(counts, DOMAIN counts))]

\* get_distribution, lines 71-75: the budget is spent, the vector is returned.
return_distribution ==
    /\ pc = "simulate"
    /\ i = simulations
    /\ result' = normalize(visit_counts([a \in 0..(ACTION_SIZE - 1) |-> 0],
                                        nodes[root].edges))
    /\ pc' = "idle"
    /\ UNCHANGED <<game, fresh, failed, simulations, tree, root, nodes,
                   next_id, state, i, leaf, breadcrumbs, value, rstate,
                   player, queries, created, prev_state, start_visits,
                   start_leaf, steps>>

Next ==
    \/ \E s \in QueryStates : get_distribution(s)
    \/ simulate
    \/ rollout
    \/ leaf_value
    \/ rollout_move
    \/ rollout_return
    \/ expand_node
    \/ back_propagate
    \/ return_distribution

Spec == Init /\ [][Next]_vars

\* The engine with the broken game plugged in.
NextBroken ==
    \/ \E s \in QueryStates : get_distribution(s)
    \/ simulate
    \/ rollout
    \/ leaf_value
    \/ rollout_move
    \/ rollout_abort
    \/ rollout_return
    \/ expand_node
    \/ back_propagate
    \/ return_distribution

SpecBroken == InitBroken /\ [][NextBroken]_vars

(* ------------------------------ claims --------------------------------- *)

\* The last get_distribution has returned its vector.
Returned == pc = "idle" /\ result # NoResult /\ ~failed

Actions == 0..(ACTION_SIZE - 1)

\* Sum of a vector of fractions, as a fraction in lowest terms.
RECURSIVE SumFractions(_, _)
SumFractions(v, S) ==
    IF S = {} THEN Zero
    ELSE LET a == CHOOSE x \in S : TRUE
             r == SumFractions(v, S \ {a})
         IN  Divide(v[a].num * r.den + r.num * v[a].den, v[a].den * r.den)

\* N of the root edge labelled a, 0 when the root has no such edge.
RootVisits(a) ==
    LET edges == nodes[root].edges
        at == {k \in 1..Len(edges) : edges[k].action = a}
    IN  IF at = {} THEN 0 ELSE edges[CHOOSE k \in at : TRUE].stats.N

\* Nodes reachable from node n by following outgoing edges, n included.
RECURSIVE ReachableIn(_, _, _)
ReachableIn(nds, seen, frontier) ==
    IF frontier = {} THEN seen
    ELSE LET n == CHOOSE x \in frontier : TRUE
             out == OutNodes(nds, n) \ (seen \cup {n})
         IN  ReachableIn(nds, seen \cup {n}, (frontier \ {n}) \cup out)

IsSuccessor(a, b) ==
    /\ ~is_game_finished(a)
    /\ \E k \in 1..Len(get_valid_actions(a)) :
           b = get_next_state(a, get_valid_actions(a)[k])

\* C1 (as claimed): for a non-terminal root and a budget of at least one
\* simulation, every entry of the returned vector is a number >= 0, the
\* entries sum to 1, and entry a is N of the root edge labelled a divided by
\* the sum of N over the root's edges.
C1_DistributionSumsToOne ==
    (Returned /\ ~is_game_finished(state) /\ simulations >= 1) =>
        /\ \A a \in Actions : result[a].den > 0 /\ result[a].num >= 0
        /\ SumN(nodes[root].edges) > 0
        /\ SumFractions(result, Actions) = One
        /\ \A a \in Actions :
               result[a].num * SumN(nodes[root].edges) = RootVisits(a) * result[a].den

\* C2 (as claimed): a query whose root has visit counts summing to 0 at
\* normalisation ends in a failure and returns no vector, so no returned
\* vector has an entry obtained by dividing by zero.
C2_ZeroVisitsFail ==
    (pc = "idle" /\ root # None /\ SumN(nodes[root].edges) = 0) => result = NoResult

\* C3 (as claimed): for a non-terminal root, after i completed simulations
\* of a query the sum of N over the root's outgoing edges equals i.
C3_RootVisitsEqualSimulations ==
    (root # None /\ ~is_game_finished(state)) => SumN(nodes[root].edges) = i

\* C3 (amended): for a non-terminal root, after i completed simulations of a
\* query the sum of N over the root's outgoing edges equals i - 1 (0 for
\* i = 0) when the root had no outgoing edges at the start of the query, and
\* P + i when it had edges whose visit counts summed to P.
C3_RootVisits ==
    (root # None /\ ~is_game_finished(state)) =>
        SumN(nodes[root].edges) =
            IF start_leaf THEN (IF i = 0 THEN 0 ELSE i - 1) ELSE start_visits + i

\* C3 witness: a query on a newly created non-terminal root has returned
\* after at least two simulations.
C3_Witness ==
    /\ Returned /\ ~is_game_finished(state) /\ start_leaf
    /\ simulations >= 2
    /\ SumN(nodes[root].edges) = simulations - 1

\* C4: when a query on a non-terminal state A with a budget of at least one
\* has returned and the next query is on a state B reached from A by a legal
\* action, B's node is in the store, becomes the root, and every node
\* reachable from it is the same object with the same edges and the same
\* N, W, Q when the second query starts its simulations.
C4_TreeReuse ==
    [][ ( /\ pc = "idle" /\ pc' = "simulate"
          /\ state # NoState /\ simulations >= 1
          /\ IsSuccessor(state, state') )
        => ( /\ get_hashable(state') \in DOMAIN tree
             /\ root' = tree[get_hashable(state')]
             /\ nodes[root'].state = state'
             /\ \A n \in ReachableIn(nodes, {}, {root'}) :
                    n \in DOMAIN nodes' /\ nodes'[n] = nodes[n]
             /\ ReachableIn(nodes', {}, {root'}) = ReachableIn(nodes, {}, {root'}) )
      ]_vars

\* C4 witness: the second query has just set its root to a child of the
\* first query's root, and the retained root has an edge with visits.
C4_Witness ==
    /\ pc = "simulate" /\ i = 0 /\ simulations >= 1
    /\ prev_state # NoState /\ IsSuccessor(prev_state, state)
    /\ \E k \in 1..Len(nodes[root].edges) : nodes[root].edges[k].stats.N > 0

\* C5: immediately after the store is pruned to a new root, its keys are
\* exactly the keys of the nodes reachable from the new root, each mapped to
\* that node.
C5_PruneExact ==
    [][ (pc = "idle" /\ pc' = "simulate" /\ get_hashable(state') \in DOMAIN tree)
        => LET reach == ReachableIn(nodes', {}, {root'})
           IN  /\ DOMAIN tree' = { get_hashable(nodes'[n].state) : n \in reach }
               /\ \A n \in reach : tree'[get_hashable(nodes'[n].state)] = n
      ]_vars

\* C5 witness: a prune has just kept a root with descendants and dropped
\* the key of a node created earlier.
C5_Witness ==
    /\ pc = "simulate" /\ i = 0
    /\ Cardinality(DOMAIN tree) >= 3
    /\ \E k \in DOMAIN created : k \notin DOMAIN tree

EdgesOf(n) == { nodes[n].edges[k] : k \in 1..Len(nodes[n].edges) }

\* C6: every edge has N >= 0; with N > 0 its Q is W / N, with N = 0 its W
\* and Q are 0.
C6_MeanValue ==
    \A n \in DOMAIN nodes : \A e \in EdgesOf(n) :
        /\ e.stats.N >= 0
        /\ e.stats.N > 0 =>
               e.stats.Q.den > 0 /\ e.stats.Q.num * e.stats.N = e.stats.W * e.stats.Q.den
        /\ e.stats.N = 0 => e.stats.W = 0 /\ e.stats.Q = Zero

\* C6 witness: an edge visited three times with a mean value that is not an
\* integer.
C6_Witness ==
    \E n \in DOMAIN nodes : \E e \in EdgesOf(n) :
        e.stats.N >= 3 /\ e.stats.Q.den > 1

\* C7: at every node, while some outgoing edge has N = 0 no outgoing edge
\* has N >= 2.
C7_FirstPlayUrgency ==
    \A n \in DOMAIN nodes :
        (\E e \in EdgesOf(n) : e.stats.N = 0) => \A e \in EdgesOf(n) : e.stats.N <= 1

\* C7 witness: a node with at least two edges whose edges have all been
\* visited and one of them more than once.
C7_Witness ==
    \E n \in DOMAIN nodes :
        /\ Len(nodes[n].edges) >= 2
        /\ \A e \in EdgesOf(n) : e.stats.N >= 1
        /\ \E e \in EdgesOf(n) : e.stats.N >= 2

\* C8: for a root with exactly one legal action and a budget of 5, the
\* returned vector has 1 at that action and 0 at every other action.
C8_SingleAction ==
    ( /\ Returned /\ simulations = 5
      /\ ~is_game_finished(state) /\ Len(get_valid_actions(state)) = 1 )
    => result = [a \in Actions |->
                    IF a = get_valid_actions(state)[1] THEN One ELSE Zero]

\* C8 witness: a query with budget 5 on a root with one legal action has
\* returned.
C8_Witness ==
    /\ Returned /\ simulations = 5
    /\ ~is_game_finished(state) /\ Len(get_valid_actions(state)) = 1

\* C10 (as claimed): over a session at most one Node object is ever
\* constructed for a state key.
C10_CreatedOnce == \A k \in DOMAIN created : created[k] <= 1

Constructed(c, k) == IF k \in DOMAIN c THEN c[k] ELSE 0

\* C10 (amended): a Node is constructed for a key only when the store holds
\* no node for that key, one object per key at a time, and the store holds
\* it afterwards.
C10_CreatedWhenAbsent ==
    [][ \A k \in DOMAIN created' :
            Constructed(created', k) # Constructed(created, k) =>
                /\ k \notin DOMAIN tree
                /\ Constructed(created', k) = Constructed(created, k) + 1
                /\ k \in DOMAIN tree'
      ]_vars

\* C10 witness: a second Node object has been constructed for a key.
C10_Witness == \E k \in DOMAIN created : created[k] >= 2

EvaluatePath == <<"select", "evaluate">>

ExpandPath == <<"select", "rollout", "expand">>

\* C11: a simulation is select, evaluate, backprop when the selected leaf is
\* finished and select, rollout, expand, backprop when it is not; the
\* rollout and the expansion happen exactly for an unfinished leaf, the
\* backpropagation comes once, last, and alone completes the simulation,
\* and the next selection starts only after it.
C11_StepSequence ==
    /\ [] ( /\ pc \in {"simulate", "idle"} =>
                  IF i = 0 THEN steps = <<>>
                  ELSE steps \in { Append(EvaluatePath, "backprop"),
                                   Append(ExpandPath, "backprop") }
            /\ pc = "leaf" => steps = <<"select">>
            /\ pc \in {"rollout", "expand"} =>
                  steps = <<"select", "rollout">> /\ ~is_game_finished(nodes[leaf].state)
            /\ pc = "back_propagate" =>
                  IF is_game_finished(nodes[leaf].state)
                  THEN /\ steps = EvaluatePath
                       /\ nodes[leaf].edges = <<>>
                       /\ value = get_value(nodes[leaf].state)
                  ELSE /\ steps = ExpandPath
                       /\ Len(nodes[leaf].edges) = Len(get_valid_actions(nodes[leaf].state)) )
    /\ [][ /\ (i' = i + 1) <=> (steps' = Append(steps, "backprop"))
           /\ steps' = <<"select">> => pc = "simulate"
           /\ (pc \notin {"idle", "expand", "back_propagate"} /\ pc' # "idle")
                  => nodes' = nodes ]_vars

\* C11 witness: a simulation on a finished leaf has completed after an
\* earlier simulation that expanded a leaf.
C11_Witness ==
    /\ pc = "simulate" /\ i >= 2 /\ start_leaf
    /\ steps = Append(EvaluatePath, "backprop")

\* An edge without its statistics.
Arc(e) == [in_node |-> e.in_node, out_node |-> e.out_node,
           action |-> e.action, player |-> e.player]

Parents(n) == { m \in DOMAIN nodes : n \in OutNodes(nodes, m) }

\* C12: the expansion step acts on a node without outgoing edges whose
\* state is not finished, and the edge sequence of a node that has edges
\* keeps its length, order, actions, players and destinations in every
\* step, for as long as the node lives.
C12_ExpandedOnce ==
    [][ /\ (pc = "expand" /\ pc' # "expand") =>
               /\ nodes[leaf].edges = <<>>
               /\ ~is_game_finished(nodes[leaf].state)
        /\ \A n \in (DOMAIN nodes) \cap (DOMAIN nodes') :
               /\ nodes'[n].state = nodes[n].state
               /\ nodes[n].edges # <<>> =>
                      /\ Len(nodes'[n].edges) = Len(nodes[n].edges)
                      /\ \A k \in 1..Len(nodes[n].edges) :
                             Arc(nodes'[n].edges[k]) = Arc(nodes[n].edges[k])
      ]_vars

\* C12 witness: a simulation has completed while a node that was expanded
\* is shared by two parents.
C12_Witness ==
    /\ pc = "simulate"
    /\ \E n \in DOMAIN nodes :
           /\ nodes[n].edges # <<>>
           /\ \E m1 \in Parents(n) : \E m2 \in Parents(n) : m1 # m2

\* C13: the expansion step gives the leaf one edge per legal action of its
\* state, in the order of the legal actions, each with N = 0, W = 0, Q = 0,
\* the leaf's player to move and, as destination, the node the store holds
\* for the successor's key: a node already stored is shared and left as it
\* was, a key not stored gets one new node without edges; nothing else in
\* the store or the graph changes.
C13_Expansion ==
    [][ (pc = "expand" /\ pc' = "back_propagate") =>
          LET st == nodes[leaf].state
              acts == get_valid_actions(st)
              succ(k) == get_next_state(st, acts[k])
              keys == { get_hashable(succ(k)) : k \in 1..Len(acts) }
          IN  /\ Len(nodes'[leaf].edges) = Len(acts)
              /\ nodes'[leaf].state = st
              /\ \A k \in 1..Len(acts) :
                     LET e == nodes'[leaf].edges[k]
                         key == get_hashable(succ(k))
                     IN  /\ e.action = acts[k]
                         /\ e.stats.N = 0 /\ e.stats.W = 0 /\ e.stats.Q = Zero
                         /\ e.player = get_player(st)
                         /\ e.in_node = leaf
                         /\ key \in DOMAIN tree' /\ e.out_node = tree'[key]
                         /\ nodes'[e.out_node].state = succ(k)
                         /\ IF key \in DOMAIN tree
                            THEN /\ e.out_node = tree[key]
                                 /\ nodes'[e.out_node] = nodes[e.out_node]
                            ELSE /\ e.out_node \notin DOMAIN nodes
                                 /\ nodes'[e.out_node].edges = <<>>
              /\ DOMAIN tree' = (DOMAIN tree) \cup keys
              /\ \A key \in DOMAIN tree : tree'[key] = tree[key]
              /\ Cardinality((DOMAIN nodes') \ (DOMAIN nodes))
                     = Cardinality(keys \ (DOMAIN tree))
              /\ \A n \in (DOMAIN nodes) \ {leaf} : nodes'[n] = nodes[n]
      ]_vars

\* C13 witness: a leaf has just been expanded and one of its new edges
\* leads to a node that was already stored and has edges of its own.
C13_Witness ==
    /\ pc = "back_propagate" /\ steps = ExpandPath
    /\ \E e \in EdgesOf(leaf) :
           /\ nodes[e.out_node].edges # <<>>
           /\ Parents(e.out_node) # {leaf}

\* The edge a breadcrumb refers to, in the graph nds.
EdgeAt(nds, crumb) == nds[crumb[1]].edges[crumb[2]]

\* C14: backpropagation of value v from leaf L adds v to W of every path
\* edge whose player is L's player to move and -v to W of every other path
\* edge; the players of consecutive path edges alternate, and the edge
\* entering L belongs to L's opponent and receives -v.
C14_SignedValue ==
    [][ (pc = "back_propagate" /\ pc' = "simulate") =>
          LET leaf_player == get_player(nodes[leaf].state)
              len == Len(breadcrumbs)
          IN  \A j \in 1..len :
                  LET e == EdgeAt(nodes, breadcrumbs[j])
                      after == EdgeAt(nodes', breadcrumbs[j])
                  IN  /\ e.player = leaf_player => after.stats.W = e.stats.W + value
                      /\ e.player # leaf_player => after.stats.W = e.stats.W - value
                      /\ j < len => e.player # EdgeAt(nodes, breadcrumbs[j + 1]).player
                      /\ j = len => /\ e.player # leaf_player
                                    /\ e.out_node = leaf
                                    /\ after.stats.W = e.stats.W - value
      ]_vars

\* C14 witness: an edge with positive W leads to a node with an edge of
\* negative W: a value has been added with both signs along one path.
C14_Witness ==
    \E n \in DOMAIN nodes : \E e \in EdgesOf(n) :
        /\ e.stats.W > 0
        /\ \E f \in EdgesOf(e.out_node) : f.stats.W < 0

\* The breadcrumbs as a set of <<node, edge index>> pairs.
OnPath == { breadcrumbs[j] : j \in 1..Len(breadcrumbs) }

\* C15: the traversal path holds no edge twice; backpropagation adds exactly
\* 1 to N of each path edge and leaves N, W and Q of every other edge as
\* they were; no step ever lowers the N of an edge.
C15_PathVisitedOnce ==
    /\ [](\A j \in 1..Len(breadcrumbs) : \A k \in 1..Len(breadcrumbs) :
             j # k => breadcrumbs[j] # breadcrumbs[k])
    /\ [][ \A n \in (DOMAIN nodes) \cap (DOMAIN nodes') :
              \A k \in 1..Len(nodes[n].edges) :
                  LET e == nodes[n].edges[k]
                      after == nodes'[n].edges[k]
                  IN  /\ after.stats.N >= e.stats.N
                      /\ IF pc = "back_propagate" /\ <<n, k>> \in OnPath
                         THEN after.stats.N = e.stats.N + 1
                         ELSE after.stats = e.stats
      ]_vars

\* C15 witness: a simulation has backpropagated along a path of two edges
\* or more while an edge off the path held visits of its own: the root has
\* two visited edges and one of them leads to a node with a visited edge.
C15_Witness ==
    /\ pc = "simulate"
    /\ i > 0
    /\ \E e \in EdgesOf(root) : \E f \in EdgesOf(root) :
           /\ e # f
           /\ e.stats.N > 0
           /\ f.stats.N > 0
           /\ \E g \in EdgesOf(e.out_node) : g.stats.N > 0

\* State b is reached from state a by zero or more legal actions.
RECURSIVE PlayoutReaches(_, _)
PlayoutReaches(a, b) ==
    \/ a = b
    \/ /\ ~is_game_finished(a)
       /\ \E k \in 1..Len(get_valid_actions(a)) :
              PlayoutReaches(get_next_state(a, get_valid_actions(a)[k]), b)

\* C16: the rollout from the non-terminal state s of the leaf starts in s,
\* plays only legal actions, and returns the value of the terminal state it
\* reaches: as it is when the player to move there is s's player to move,
\* negated otherwise; meanwhile the store, the nodes, their edges and
\* statistics do not change.
C16_RolloutValue ==
    [][ /\ (pc = "leaf" /\ pc' = "rollout") =>
              /\ ~is_game_finished(nodes[leaf].state)
              /\ rstate' = nodes[leaf].state
        /\ (pc = "rollout" /\ pc' = "rollout") => IsSuccessor(rstate, rstate')
        /\ (pc = "rollout" /\ pc' = "expand") =>
              LET s == nodes[leaf].state
              IN  /\ is_game_finished(rstate)
                  /\ PlayoutReaches(s, rstate)
                  /\ get_player(rstate) = get_player(s) => value' = get_value(rstate)
                  /\ get_player(rstate) # get_player(s) => value' = -get_value(rstate)
        /\ (pc \in {"leaf", "rollout"} /\ pc' \in {"rollout", "expand"}) =>
              /\ tree' = tree
              /\ nodes' = nodes
              /\ next_id' = next_id
              /\ created' = created
      ]_vars

\* C16 witness: a rollout has returned 1: the playout ended in a state lost
\* for the player to move there, who is not the leaf's player to move.
C16_Witness ==
    /\ pc = "expand"
    /\ value = 1
    /\ steps = <<"select", "rollout">>

\* The store's key of node n.
KeyOf(n) == get_hashable(nodes[n].state)

\* C17: once there is a root, the root is in the store; every stored node
\* is stored under the key of its own state and each of its edges leads to
\* the very node the store holds for the destination's key; every node
\* reachable from the root is the store's node for its key.
C17_StoreClosure ==
    root # None =>
        /\ root \in DOMAIN nodes
        /\ KeyOf(root) \in DOMAIN tree
        /\ tree[KeyOf(root)] = root
        /\ \A key \in DOMAIN tree :
               /\ tree[key] \in DOMAIN nodes
               /\ KeyOf(tree[key]) = key
               /\ \A e \in EdgesOf(tree[key]) :
                      /\ e.out_node \in DOMAIN nodes
                      /\ KeyOf(e.out_node) \in DOMAIN tree
                      /\ tree[KeyOf(e.out_node)] = e.out_node
        /\ \A n \in ReachableIn(nodes, {}, {root}) :
               /\ KeyOf(n) \in DOMAIN tree
               /\ tree[KeyOf(n)] = n

\* C17 witness: the second query has just pruned the store to its root,
\* before any simulation of its own, and the pruned store holds a node that
\* two retained parents point to: copy_subtree has walked a shared node.
C17_Witness ==
    /\ queries = 2
    /\ ~fresh
    /\ pc = "simulate"
    /\ i = 0
    /\ \E n \in DOMAIN nodes :
           /\ tree[KeyOf(n)] = n
           /\ \E m1 \in Parents(n) : \E m2 \in Parents(n) :
                  /\ m1 # m2
                  /\ tree[KeyOf(m1)] = m1
                  /\ tree[KeyOf(m2)] = m2

\* A state that breaks the collaborator contract: not finished, no legal action.
NoLegalAction(s) == ~is_game_finished(s) /\ get_valid_actions(s) = <<>>

\* C18: when the selected leaf's state is not finished and has no legal
\* action, the query ends with a fatal error and returns no distribution;
\* from the selection to the error the failing simulation leaves the store,
\* the nodes, their edges and statistics as they were and completes no
\* simulation; after the error the engine does nothing until the caller's
\* next query, which starts from its first simulation.
C18_FatalAbort ==
    /\ [](failed => (pc = "idle" /\ result = NoResult))
    /\ [][ /\ (pc = "leaf" /\ NoLegalAction(nodes[leaf].state)) =>
                 /\ pc' = "rollout"
                 /\ rstate' = nodes[leaf].state
           /\ (pc = "rollout" /\ NoLegalAction(rstate)) =>
                 /\ failed'
                 /\ pc' = "idle"
                 /\ result' = NoResult
                 /\ i' = i
           /\ (pc' \in {"leaf", "rollout"} \/ (failed' /\ ~failed)) =>
                 /\ nodes' = nodes
                 /\ tree' = tree
                 /\ next_id' = next_id
           /\ failed => (queries' = queries + 1 /\ pc' = "simulate" /\ i' = 0)
         ]_vars

\* C18 witness: a query has ended with the fatal error on a leaf below the
\* root whose state has no legal action, in a graph that holds visited
\* edges.
C18_Witness ==
    /\ failed
    /\ pc = "idle"
    /\ leaf \in DOMAIN nodes
    /\ leaf # root
    /\ NoLegalAction(nodes[leaf].state)
    /\ \E e \in EdgesOf(root) : e.stats.N > 0

\* The edges of node m that lead to node n.
EdgesInto(m, n) == SelectSeq(nodes[m].edges, LAMBDA e : e.out_node = n)

\* Sum of N over the edges that lead to node n from the nodes in S.
RECURSIVE IncomingN(_, _)
IncomingN(S, n) ==
    IF S = {} THEN 0
    ELSE LET m == CHOOSE x \in S : TRUE
         IN  SumN(EdgesInto(m, n)) + IncomingN(S \ {m}, n)

\* Number of simulations that reached node n in the current query.
ReachedBy(n) == IF n = root THEN i ELSE IncomingN(DOMAIN nodes, n)

\* C19: in a query that created its tree, after every completed simulation
\* every node with outgoing edges has a sum of N over them equal to the
\* number of simulations that reached it minus 1: the completed simulations
\* for the root, the sum of N over its incoming edges for any other node;
\* finished nodes have no edges.
C19_VisitConservation ==
    (fresh /\ pc \in {"simulate", "idle"}) =>
        \A n \in DOMAIN nodes :
            /\ nodes[n].edges # <<>> => SumN(nodes[n].edges) = ReachedBy(n) - 1
            /\ is_game_finished(nodes[n].state) => nodes[n].edges = <<>>

\* C19 witness: in a query that created its tree a node below the root has
\* been expanded and has passed a later simulation on to one of its edges.
C19_Witness ==
    /\ fresh
    /\ pc = "simulate"
    /\ \E n \in DOMAIN nodes :
           /\ n # root
           /\ nodes[n].edges # <<>>
           /\ SumN(nodes[n].edges) > 0
           /\ SumN(nodes[n].edges) = IncomingN(DOMAIN nodes, n) - 1

\* C20: when the queried state's node was in the store with outgoing edges
\* whose N summed to P (start_visits), then after the query's S simulations
\* the N of the root's edges sum to P + S and the returned entry of every
\* action is the accumulated N of its root edge divided by P + S.
C20_AccumulatedVisits ==
    (Returned /\ ~fresh /\ ~start_leaf) =>
        /\ SumN(nodes[root].edges) = start_visits + simulations
        /\ \A a \in Actions :
               result[a] = Divide(RootVisits(a), start_visits + simulations)

\* C20 witness: a query on a stored node with earlier visits has returned
\* a vector in which an entry is larger than the share of the visits of
\* this query alone could be.
C20_Witness ==
    /\ Returned
    /\ ~fresh
    /\ ~start_leaf
    /\ start_visits > 0
    /\ simulations > 0
    /\ state # prev_state
    /\ \E a \in Actions : RootVisits(a) > simulations

====
